---- MODULE Spec2Model ----
(***************************************************************************)
(* Model of run.py, the WWDTM panelist appearance report generator:        *)
(* configuration loading, the three database queries with the Python       *)
(* folding of their rows, rendering, and the output writer.                *)
(***************************************************************************)
EXTENDS Integers, Sequences, FiniteSets, TLC

\* ------------------------------------------------------------------ bounds
\* The largest number of rows of ww_shows the aggregation runs enumerate.
MaxShows == 2

\* The largest number of runs of the program against one file system.
MaxRuns == 2

\* Show years, panelist ids and panelist names the database is drawn from.
Years == {2016, 2017, 2018}
PanelistIds == {1, 2}
Names == {"Alice", "Bob"}

\* ---------------------------------------------------------- Python values
\* None is the empty tuple and any other value v is <<v>>, so that None and
\* an empty list stay different values.
None == <<>>
Some(v) == <<v>>

VARIABLES
    pc,                 \* the statement the program is about to run
    ww_shows,           \* table ww_shows, in showid order: [year, bestof, repeatshowid]
    ww_showpnlmap,      \* table ww_showpnlmap: <<showid, panelistid>>
    ww_panelists,       \* table ww_panelists: panelistid -> panelist (name)
    caller,             \* who called retrieve_panelist_appearance_counts
    panelist_id,        \* its argument
    result,             \* rows fetched by retrieve_all_panelist_appearance_counts
    result_pos,         \* position of its for loop in result
    panelists,          \* its list under construction, then main's panelists
    panelist_result,    \* rows fetched by retrieve_panelist_appearance_counts
    row_pos,            \* position of its for loop in the rows
    appearances,        \* its OrderedDict, as a sequence of <<key, value>>
    total_appearances,  \* its running total
    returned,           \* the value it returned to a direct caller
    show_years,         \* main's show_years
    config_file,        \* config.json: [database, report]
    cli_args,           \* the command line: option -> None or Some(string)
    app_config,         \* main's app_config
    rendered_report,    \* main's rendered_report
    fs_dirs,            \* the directories that exist
    fs_files,           \* path -> None, or Some(content) of the file there
    env,                \* what the file system lets the process do
    stdout,             \* the lines printed
    stages,             \* the calls main has made in this run, in order
    failed_at,          \* the statement that raised, once pc = "failed"
    run,                \* the number of this run
    history             \* how every earlier run began and ended

dbvars == <<ww_shows, ww_showpnlmap, ww_panelists>>
aggvars == <<caller, panelist_id, result, result_pos, panelists, panelist_result,
             row_pos, appearances, total_appearances, returned, show_years>>
cfgvars == <<config_file, cli_args, app_config>>
fsvars == <<fs_dirs, fs_files>>
outvars == <<rendered_report, fsvars, env, stdout>>
runvars == <<run, history>>
vars == <<pc, dbvars, aggvars, cfgvars, outvars, stages, failed_at, runvars>>

\* ------------------------------------------------------------------ main
\* A plausible slip: the years queried before the panelists.
AfterYearsFirst(stage) ==
    CASE stage = "load_config" -> "connect"
      [] stage = "connect" -> "query_years"
      [] stage = "query_years" -> "query_panelists"
      [] stage = "query_panelists" -> "render"
      [] stage = "render" -> "generate_output_files"
      [] stage = "generate_output_files" -> "done"

\* The statement main runs after the call `stage` has returned.
After(stage) ==
    CASE stage = "load_config" -> "connect"
      [] stage = "connect" -> "query_panelists"
      [] stage = "query_panelists" -> "query_years"
      [] stage = "query_years" -> "render"
      [] stage = "render" -> "generate_output_files"
      [] stage = "generate_output_files" -> "done"

\* The call of main a statement belongs to.
StageOf(p) ==
    IF p \in {"panelist_query", "fold"} THEN "query_panelists"
    ELSE IF p \in {"write", "copy"} THEN "generate_output_files"
    ELSE p

\* main is in the call `stage`: recorded once, when its first statement runs.
Enter(stage) ==
    stages' = IF stages # <<>> /\ stages[Len(stages)] = stage
              THEN stages ELSE Append(stages, stage)

\* An exception nothing catches: the program ends at the statement pc.
Raise ==
    /\ pc' = "failed"
    /\ failed_at' = pc

\* ------------------------------------------------------------------- SQL
\* A NULL repeatshowid is <<>>, a set one is <<showid>>. A show is a regular
\* one, a best-of or a repeat.
ShowRows ==
    {s \in [year : Years, bestof : {0, 1}, repeatshowid : {<<>>, <<1>>}] :
        s.bestof = 0 \/ s.repeatshowid = <<>>}

\* WHERE s.bestof = 0 AND s.repeatshowid IS NULL
Countable(s) == s.bestof = 0 /\ s.repeatshowid = <<>>

\* The shows that ww_showpnlmap JOIN ww_shows JOIN ww_panelists keeps for
\* panelist pid under the WHERE clause of both appearance queries.
Matching(pid) ==
    {sid \in 1..Len(ww_shows) :
        /\ <<sid, pid>> \in ww_showpnlmap
        /\ pid \in DOMAIN ww_panelists
        /\ Countable(ww_shows[sid])}

\* One more joined row of year y into the groups of GROUP BY YEAR(s.showdate).
AddToGroup(groups, y) ==
    IF \E k \in 1..Len(groups) : groups[k][1] = y
    THEN [k \in 1..Len(groups) |->
            IF groups[k][1] = y THEN <<y, groups[k][2] + 1>> ELSE groups[k]]
    ELSE Append(groups, <<y, 1>>)

\* GROUP BY p.panelist, YEAR(s.showdate) with COUNT(p.panelist): the groups
\* in the order a scan of the joined rows meets them.
RECURSIVE GroupScan(_, _, _)
GroupScan(pid, sid, groups) ==
    IF sid > Len(ww_shows) THEN groups
    ELSE IF sid \in Matching(pid)
         THEN GroupScan(pid, sid + 1, AddToGroup(groups, ww_shows[sid].year))
         ELSE GroupScan(pid, sid + 1, groups)

\* Insertion of a row into rows sorted ascending by their first column.
RECURSIVE InsertRow(_, _)
InsertRow(r, s) ==
    IF s = <<>> THEN <<r>>
    ELSE IF r[1] < Head(s)[1] THEN <<r>> \o s
         ELSE <<Head(s)>> \o InsertRow(r, Tail(s))

RECURSIVE SortAsc(_)
SortAsc(s) ==
    IF s = <<>> THEN <<>>
    ELSE InsertRow(s[Len(s)], SortAsc(SubSeq(s, 1, Len(s) - 1)))

\* A plausible slip: the query without its ORDER BY clause.
PanelistOrderByMissing(groups) == groups

\* ORDER BY p.panelist ASC, YEAR(s.showdate) ASC; the rows of one panelist id
\* carry one name, so the order is the order of the years.
PanelistOrderBy(groups) == SortAsc(groups)

\* cursor.execute(query, (panelist_id, )); cursor.fetchall()
PanelistAppearanceRows(pid) == PanelistOrderBy(GroupScan(pid, 1, <<>>))

\* The order of the names under ORDER BY p.panelist ASC.
NameRank(n) == IF n = "Alice" THEN 1 ELSE 2

\* SELECT DISTINCT p.panelistid, p.panelist ... WHERE s.bestof = 0 AND
\* s.repeatshowid IS NULL
DistinctPanelists ==
    {<<pid, ww_panelists[pid]>> : pid \in {p \in PanelistIds : Matching(p) # {}}}

\* ORDER BY p.panelist ASC: every listing of the rows with the names in
\* order; rows of equal names come in either order.
OrderedByName(S) ==
    {sq \in [1..Cardinality(S) -> S] :
        /\ \A a, b \in 1..Cardinality(S) : a # b => sq[a] # sq[b]
        /\ \A a, b \in 1..Cardinality(S) :
              a < b => NameRank(sq[a][2]) <= NameRank(sq[b][2])}

\* SELECT DISTINCT YEAR(s.showdate) FROM ww_shows s, in scan order.
RECURSIVE YearScan(_, _)
YearScan(sid, seen) ==
    IF sid > Len(ww_shows) THEN seen
    ELSE IF \E k \in 1..Len(seen) : seen[k][1] = ww_shows[sid].year
         THEN YearScan(sid + 1, seen)
         ELSE YearScan(sid + 1, Append(seen, <<ww_shows[sid].year>>))

\* ORDER BY YEAR(s.showdate) ASC
YearsOrderBy(found) == SortAsc(found)

AllYearRows == YearsOrderBy(YearScan(1, <<>>))

\* ----------------------------------------------------------- OrderedDict
YearKey(y) == <<"int", y>>
TotalKey == <<"str", "total">>

\* d[k] = v on an OrderedDict: a known key keeps its place, a new one is
\* appended.
OdSet(d, k, v) ==
    IF \E n \in 1..Len(d) : d[n][1] = k
    THEN [n \in 1..Len(d) |-> IF d[n][1] = k THEN <<k, v>> ELSE d[n]]
    ELSE Append(d, <<k, v>>)

\* A plausible slip: the running total assigned instead of accumulated.
AddRowAssigned(total, row) == row[2]

\* total_appearances += row[1]
AddRow(total, row) == total + row[2]

\* ------------------------------------ retrieve_panelist_appearance_counts
\* The function hands `value` back: to the loop of
\* retrieve_all_panelist_appearance_counts, which appends the panelist and
\* goes on, or to a direct caller.
ReturnAppearances(value) ==
    IF caller = "all"
    THEN /\ panelists' = Some(Append(panelists[1],
                [name |-> result[result_pos][2], appearances |-> value]))
         /\ IF result_pos < Len(result)
            THEN /\ result_pos' = result_pos + 1
                 /\ panelist_id' = result[result_pos + 1][1]
                 /\ pc' = "panelist_query"
            ELSE /\ pc' = After("query_panelists")
                 /\ UNCHANGED <<result_pos, panelist_id>>
         /\ UNCHANGED returned
    ELSE /\ returned' = value
         /\ pc' = "returned"
         /\ UNCHANGED <<panelists, result_pos, panelist_id>>

\* Lines 23-39: the query, the empty result, the empty OrderedDict.
PanelistQuery ==
    /\ pc = "panelist_query"
    /\ panelist_result' = PanelistAppearanceRows(panelist_id)
    /\ IF panelist_result' = <<>>
       THEN /\ ReturnAppearances(None)
            /\ UNCHANGED <<appearances, total_appearances, row_pos>>
       ELSE /\ appearances' = <<>>
            /\ total_appearances' = 0
            /\ row_pos' = 1
            /\ pc' = "fold"
            /\ UNCHANGED <<panelists, result_pos, panelist_id, returned>>
    /\ UNCHANGED <<dbvars, caller, result, show_years>>
    /\ UNCHANGED <<cfgvars, outvars, stages, failed_at, runvars>>

\* Lines 40-42: one pass of the for loop.
FoldRow ==
    /\ pc = "fold"
    /\ row_pos <= Len(panelist_result)
    /\ appearances' = OdSet(appearances,
                            YearKey(panelist_result[row_pos][1]),
                            panelist_result[row_pos][2])
    /\ total_appearances' = AddRow(total_appearances, panelist_result[row_pos])
    /\ row_pos' = row_pos + 1
    /\ UNCHANGED <<pc, dbvars, caller, panelist_id, result, result_pos, panelists,
                   panelist_result, returned, show_years>>
    /\ UNCHANGED <<cfgvars, outvars, stages, failed_at, runvars>>

\* Lines 44-45: the total entry and the return.
FoldDone ==
    /\ pc = "fold"
    /\ row_pos > Len(panelist_result)
    /\ appearances' = OdSet(appearances, TotalKey, total_appearances)
    /\ ReturnAppearances(Some(appearances'))
    /\ UNCHANGED <<dbvars, caller, result, panelist_result, row_pos,
                   total_appearances, show_years>>
    /\ UNCHANGED <<cfgvars, outvars, stages, failed_at, runvars>>

\* -------------------------------- retrieve_all_panelist_appearance_counts
\* Lines 52-65: the query, the empty result, the empty list.
AllPanelistsQuery ==
    /\ pc = "query_panelists"
    /\ \E fetched \in OrderedByName(DistinctPanelists) :
          /\ result' = fetched
          /\ IF fetched = <<>>
             THEN /\ panelists' = None
                  /\ pc' = After("query_panelists")
                  /\ UNCHANGED <<result_pos, panelist_id>>
             ELSE /\ panelists' = Some(<<>>)
                  /\ result_pos' = 1
                  /\ panelist_id' = fetched[1][1]
                  /\ pc' = "panelist_query"
    /\ UNCHANGED <<dbvars, caller, panelist_result, row_pos, appearances,
                   total_appearances, returned, show_years>>
    /\ Enter("query_panelists")
    /\ UNCHANGED <<cfgvars, outvars, failed_at, runvars>>

\* ------------------------------------------------------ retrieve_all_years
YearsOf(fetched) == [n \in 1..Len(fetched) |-> fetched[n][1]]

RetrieveAllYears ==
    /\ pc = "query_years"
    /\ show_years' = IF AllYearRows = <<>> THEN None ELSE Some(YearsOf(AllYearRows))
    /\ pc' = After("query_years")
    /\ UNCHANGED <<dbvars, caller, panelist_id, result, result_pos, panelists,
                   panelist_result, row_pos, appearances, total_appearances,
                   returned>>
    /\ Enter("query_years")
    /\ UNCHANGED <<cfgvars, outvars, failed_at, runvars>>

\* cursor.execute raises: the error leaves the function and the program.
ExecuteFails ==
    /\ pc \in {"query_panelists", "panelist_query", "query_years"}
    /\ Raise
    /\ Enter(StageOf(pc))
    /\ UNCHANGED <<dbvars, aggvars, cfgvars, outvars, runvars>>

\* ------------------------------------------------------------ load_config
ReportKeys == {"ga_property_code", "css_directory", "css_filename",
               "output_directory", "output_filename"}

\* A JSON or command-line value: a string, or a number.
Str(s) == <<"str", s>>
Num(s) == <<"int", s>>
IsString(v) == v[1] = "str"

\* parser.add_argument(..., type=str, default=config_dict["report"][key]) and
\* parse_args(): an option not given takes its default as it is, a given one
\* is its string.
ParseArgs(cfg, cli) ==
    [k \in ReportKeys |-> IF cli[k] = None THEN cfg.report[k] ELSE Str(cli[k][1])]

\* A plausible slip: the test of the override turned around.
OverrideIfEqual(cfg, args, k) ==
    IF args[k] = cfg.report[k]
    THEN [cfg EXCEPT !.report[k] = args[k]]
    ELSE cfg

\* if args.<key> != config_dict["report"][<key>]:
\*     config_dict["report"][<key>] = args.<key>
Override(cfg, args, k) ==
    IF args[k] # cfg.report[k]
    THEN [cfg EXCEPT !.report[k] = args[k]]
    ELSE cfg

\* Lines 137-150: the five overrides, in the order of the source.
Resolve(cfg, args) ==
    Override(Override(Override(Override(Override(cfg, args,
        "ga_property_code"), args, "css_directory"), args, "css_filename"),
        args, "output_directory"), args, "output_filename")

\* config_dict["report"][key] of a key the file lacks raises KeyError while
\* the parser is built.
LoadConfig ==
    /\ pc = "load_config"
    /\ IF ReportKeys \subseteq DOMAIN config_file.report
       THEN /\ app_config' = Some(Resolve(config_file, ParseArgs(config_file, cli_args)))
            /\ pc' = After("load_config")
            /\ UNCHANGED failed_at
       ELSE /\ Raise
            /\ UNCHANGED app_config
    /\ Enter("load_config")
    /\ UNCHANGED <<dbvars, aggvars, config_file, cli_args, outvars, runvars>>

\* ---------------------------------------------------------------- connect
\* mysql.connector.connect(**app_config["database"])
Connect ==
    /\ pc = "connect"
    /\ pc' = After("connect")
    /\ Enter("connect")
    /\ UNCHANGED <<dbvars, aggvars, cfgvars, outvars, failed_at, runvars>>

ConnectFails ==
    /\ pc = "connect"
    /\ Raise
    /\ Enter("connect")
    /\ UNCHANGED <<dbvars, aggvars, cfgvars, outvars, runvars>>

\* ---------------------------------------------------------- render_report
\* The values of rendered_date_time two runs can see.
Times == {"t1", "t2"}

\* The document is the data handed to the template.
RenderReport ==
    /\ pc = "render"
    /\ \E t \in Times :
          rendered_report' = Some([show_years |-> show_years,
                                   panelists |-> panelists,
                                   settings |-> app_config[1].report,
                                   rendered_at |-> t])
    /\ pc' = After("render")
    /\ Enter("render")
    /\ UNCHANGED <<dbvars, aggvars, cfgvars, fsvars, env, stdout, failed_at, runvars>>

\* template_env.get_template raises TemplateNotFound, or render raises.
RenderFails ==
    /\ pc = "render"
    /\ Raise
    /\ Enter("render")
    /\ UNCHANGED <<dbvars, aggvars, cfgvars, outvars, runvars>>

\* -------------------------------------------------- generate_output_files
Setting(k) == app_config[1].report[k]

\* os.path.join of two strings; anything else raises TypeError.
CanJoin(a, b) == IsString(a) /\ IsString(b)
PathJoin(a, b) == <<a[2], b[2]>>

css_path == PathJoin(Setting("css_directory"), Setting("css_filename"))
output_path == PathJoin(Setting("output_directory"), Setting("output_filename"))

\* Lines 188-195: the two paths, and the directory made when it is missing.
\* os.mkdir raises when the file system refuses.
MakeOutputDirectory ==
    /\ pc = "generate_output_files"
    /\ IF ~ (/\ CanJoin(Setting("css_directory"), Setting("css_filename"))
             /\ CanJoin(Setting("output_directory"), Setting("output_filename")))
       THEN Raise /\ UNCHANGED fs_dirs
       ELSE IF Setting("output_directory")[2] \in fs_dirs
       THEN pc' = "write" /\ UNCHANGED <<fs_dirs, failed_at>>
       ELSE IF env.can_mkdir
       THEN /\ fs_dirs' = fs_dirs \cup {Setting("output_directory")[2]}
            /\ pc' = "write"
            /\ UNCHANGED failed_at
       ELSE Raise /\ UNCHANGED fs_dirs
    /\ Enter("generate_output_files")
    /\ UNCHANGED <<dbvars, aggvars, cfgvars, rendered_report, fs_files, env,
                   stdout, runvars>>

\* A plausible slip: the file opened with mode "a".
OpenAppending(existing) == IF existing = None THEN <<>> ELSE existing[1]

\* open(output_path, "w") leaves the file empty.
OpenTruncating(existing) == <<>>

\* output_file.writable() of a file opened with mode "w".
Writable(mode) == mode \in {"w", "a", "r+"}

\* Lines 198-202: open raises when the path cannot be opened for writing;
\* an open file is written, or the message printed.
WriteReport ==
    /\ pc = "write"
    /\ IF env.can_open
       THEN /\ IF Writable("w")
               THEN /\ fs_files' = [fs_files EXCEPT ![output_path] =
                          Some(Append(OpenTruncating(fs_files[output_path]),
                                      rendered_report[1]))]
                    /\ UNCHANGED stdout
               ELSE /\ fs_files' = [fs_files EXCEPT ![output_path] =
                          Some(OpenTruncating(fs_files[output_path]))]
                    /\ stdout' = Append(stdout, <<"not writable", output_path>>)
            /\ pc' = "copy"
            /\ UNCHANGED failed_at
       ELSE /\ Raise
            /\ UNCHANGED <<fs_files, stdout>>
    /\ UNCHANGED <<dbvars, aggvars, cfgvars, rendered_report, fs_dirs, env,
                   stages, runvars>>

\* Where shutil.copy2(css_path, output_directory) puts the copy.
css_copy_path == <<Setting("output_directory")[2], Setting("css_filename")[2]>>

\* Line 205: shutil.copy2 raises when the source is missing, or is the file
\* it would write.
CopyCss ==
    /\ pc = "copy"
    /\ IF fs_files[css_path] # None /\ css_path # css_copy_path
       THEN /\ fs_files' = [fs_files EXCEPT ![css_copy_path] = fs_files[css_path]]
            /\ pc' = After("generate_output_files")
            /\ UNCHANGED failed_at
       ELSE /\ Raise
            /\ UNCHANGED fs_files
    /\ UNCHANGED <<dbvars, aggvars, cfgvars, rendered_report, fs_dirs, env,
                   stdout, stages, runvars>>

\* ------------------------------------------------------------------ inputs
\* The report section of the config.json the repository documents.
DefaultReport ==
    [ga_property_code |-> Str("UA-1"),
     css_directory |-> Str("css"),
     css_filename |-> Str("style.css"),
     output_directory |-> Str("output"),
     output_filename |-> Str("report.html")]

Database == "wwdtm"

ConfigFile(report) == [database |-> Database, report |-> report]

NoArgs == [k \in ReportKeys |-> None]

Dirs == {"css", "output", "custom"}
Files == {"style.css", "report.html"}

\* A report left in the output directory by an earlier version of the data.
OldDocument ==
    [show_years |-> None, panelists |-> None, settings |-> DefaultReport,
     rendered_at |-> "t0"]

Stylesheet == <<"rules">>

\* What is the same at the start of every run.
InitLocals ==
    /\ result = <<>>
    /\ result_pos = 0
    /\ panelists = None
    /\ panelist_result = <<>>
    /\ row_pos = 0
    /\ appearances = <<>>
    /\ total_appearances = 0
    /\ returned = None
    /\ show_years = None
    /\ app_config = None
    /\ rendered_report = None
    /\ stdout = <<>>
    /\ stages = <<>>
    /\ failed_at = ""

InitRun ==
    /\ run = 1
    /\ history = <<[outcome |-> "start", report |-> None,
                    dirs |-> fs_dirs, files |-> fs_files]>>

\* A file system with the stylesheet in place and no output directory.
InitPlainFiles ==
    /\ fs_dirs = {"css"}
    /\ fs_files = [p \in Dirs \X Files |->
                     IF p = <<"css", "style.css">> THEN Some(Stylesheet) ELSE None]
    /\ env = [can_mkdir |-> TRUE, can_open |-> TRUE]

\* ------------------------------------------------- the aggregation alone
\* Every database within the bounds.
Databases ==
    UNION {[shows : [1..n -> ShowRows],
            map : SUBSET ((1..n) \X PanelistIds),
            names : [PanelistIds -> Names]] : n \in 0..MaxShows}

\* main's call of retrieve_all_panelist_appearance_counts, or a call of
\* retrieve_panelist_appearance_counts for any panelist id.
InitAgg ==
    /\ \E db \in Databases :
          /\ ww_shows = db.shows
          /\ ww_showpnlmap = db.map
          /\ ww_panelists = db.names
    /\ \/ pc = "query_panelists" /\ caller = "all" /\ panelist_id = 0
       \/ pc = "panelist_query" /\ caller = "direct" /\ panelist_id \in PanelistIds
    /\ InitLocals
    /\ config_file = ConfigFile(DefaultReport)
    /\ cli_args = NoArgs
    /\ InitPlainFiles
    /\ InitRun

NextAgg ==
    \/ AllPanelistsQuery
    \/ PanelistQuery
    \/ FoldRow
    \/ FoldDone
    \/ RetrieveAllYears

SpecAgg == InitAgg /\ [][NextAgg]_vars

\* ------------------------------------------------- the configuration alone
\* Every report section: each key absent, the documented string, or a number.
FileReports ==
    UNION {[K -> {DefaultReport[k] : k \in ReportKeys} \cup {Num("7")}] :
             K \in SUBSET ReportKeys}

\* Every command line: each option not given, given as the file's default,
\* or given as another string.
CommandLines ==
    {c \in [ReportKeys -> {None, Some("custom")}
                            \cup {Some(DefaultReport[k][2]) : k \in ReportKeys}] :
        \A k \in ReportKeys : c[k] \in {None, Some("custom"), Some(DefaultReport[k][2])}}

EmptyDatabase ==
    /\ ww_shows = <<>>
    /\ ww_showpnlmap = {}
    /\ ww_panelists = [p \in PanelistIds |-> IF p = 1 THEN "Alice" ELSE "Bob"]

InitConfig ==
    /\ \E report \in FileReports :
          /\ \A k \in DOMAIN report : report[k] \in {DefaultReport[k], Num("7")}
          /\ config_file = ConfigFile(report)
    /\ cli_args \in CommandLines
    /\ pc = "load_config"
    /\ caller = "all"
    /\ panelist_id = 0
    /\ EmptyDatabase
    /\ InitLocals
    /\ InitPlainFiles
    /\ InitRun

NextConfig == LoadConfig

SpecConfig == InitConfig /\ [][NextConfig]_vars

\* -------------------------------------------------------- the whole program
\* A new run of the program: the file system is what the last run left, the
\* rest starts afresh.
Rerun ==
    /\ pc \in {"done", "failed"}
    /\ run < MaxRuns
    /\ run' = run + 1
    /\ history' = Append(history, [outcome |-> pc, report |-> rendered_report,
                                   dirs |-> fs_dirs, files |-> fs_files])
    /\ pc' = "load_config"
    /\ result' = <<>>
    /\ result_pos' = 0
    /\ panelists' = None
    /\ panelist_result' = <<>>
    /\ row_pos' = 0
    /\ appearances' = <<>>
    /\ total_appearances' = 0
    /\ returned' = None
    /\ show_years' = None
    /\ app_config' = None
    /\ rendered_report' = None
    /\ stdout' = <<>>
    /\ stages' = <<>>
    /\ failed_at' = ""
    /\ UNCHANGED <<dbvars, caller, panelist_id, config_file, cli_args, fsvars, env>>

\* The configuration files of the runs: the documented one, one that lacks a
\* key, and two with a number for a string.
MainReports ==
    {DefaultReport,
     [k \in ReportKeys \ {"css_filename"} |-> DefaultReport[k]],
     [DefaultReport EXCEPT !["output_filename"] = Num("7")],
     [DefaultReport EXCEPT !["ga_property_code"] = Num("7")]}

MainCommandLines ==
    {NoArgs, [NoArgs EXCEPT !["output_directory"] = Some("custom")]}

Init ==
    /\ \/ EmptyDatabase
       \/ /\ ww_shows = <<[year |-> 2016, bestof |-> 0, repeatshowid |-> <<>>]>>
          /\ ww_showpnlmap = {<<1, 1>>}
          /\ ww_panelists = [p \in PanelistIds |-> IF p = 1 THEN "Alice" ELSE "Bob"]
    /\ \E report \in MainReports : config_file = ConfigFile(report)
    /\ cli_args \in MainCommandLines
    /\ \E out \in {"absent", "empty", "used"}, css \in BOOLEAN :
          /\ fs_dirs = IF out = "absent" THEN {"css"} ELSE {"css", "output"}
          /\ fs_files = [p \in Dirs \X Files |->
                IF p = <<"css", "style.css">> /\ css THEN Some(Stylesheet)
                ELSE IF p = <<"output", "report.html">> /\ out = "used"
                     THEN Some(<<OldDocument>>)
                ELSE None]
    /\ env \in [can_mkdir : BOOLEAN, can_open : BOOLEAN]
    /\ pc = "load_config"
    /\ caller = "all"
    /\ panelist_id = 0
    /\ InitLocals
    /\ InitRun

Next ==
    \/ LoadConfig
    \/ Connect
    \/ ConnectFails
    \/ AllPanelistsQuery
    \/ PanelistQuery
    \/ FoldRow
    \/ FoldDone
    \/ RetrieveAllYears
    \/ ExecuteFails
    \/ RenderReport
    \/ RenderFails
    \/ MakeOutputDirectory
    \/ WriteReport
    \/ CopyCss
    \/ Rerun

Spec == Init /\ [][Next]_vars

\* ------------------------------------------------------------------ claims
\* The appearance records of the database, stated on the tables: panelist
\* pid has RecordCount(pid, y) appearances in year y, counting the shows that
\* are neither best-of nor repeats.
RecordCount(pid, y) ==
    Cardinality({sid \in 1..Len(ww_shows) :
        /\ <<sid, pid>> \in ww_showpnlmap
        /\ ww_shows[sid].bestof = 0
        /\ ww_shows[sid].repeatshowid = <<>>
        /\ ww_shows[sid].year = y})

RecordYears(pid) == {y \in Years : RecordCount(pid, y) > 0}

RecordPanelists == {pid \in PanelistIds : RecordYears(pid) # {}}

\* The positions of the year entries of a summary, and the sum of their counts.
YearEntries(d) == {n \in 1..Len(d) : d[n][1][1] = "int"}

RECURSIVE SumCounts(_, _)
SumCounts(d, n) ==
    IF n = 0 THEN 0
    ELSE SumCounts(d, n - 1) + (IF n \in YearEntries(d) THEN d[n][2] ELSE 0)

TotalEntries(d) == {n \in 1..Len(d) : d[n][1] = TotalKey}

\* The aggregation for all panelists has returned to main.
AllReturned == caller = "all" /\ pc \in {After("query_panelists"), After("query_years")}

\* The summary d is the one of panelist pid: its year entries are the
\* records of pid, and its one total entry is their sum.
SummaryOf(pid, d) ==
    /\ {<<d[n][1][2], d[n][2]>> : n \in YearEntries(d)}
          = {<<y, RecordCount(pid, y)>> : y \in RecordYears(pid)}
    /\ Cardinality(YearEntries(d)) = Cardinality(RecordYears(pid))
    /\ Cardinality(TotalEntries(d)) = 1
    /\ \A n \in TotalEntries(d) : d[n][2] = SumCounts(d, Len(d))

\* C1: every summary carries one total entry equal to the sum of the
\* panelist's per-year counts, which are the counts of the records; and while
\* the rows are folded in, the running total is the sum of the counts folded so
\* far.
C1_TotalIsSumOfYearCounts ==
    /\ pc = "fold" =>
          /\ TotalEntries(appearances) = {}
          /\ total_appearances = SumCounts(appearances, Len(appearances))
          /\ Len(appearances) = row_pos - 1
    /\ caller = "all" /\ panelists # None =>
          \A n \in 1..Len(panelists[1]) :
              /\ panelists[1][n].appearances # None
              /\ SummaryOf(result[n][1], panelists[1][n].appearances[1])
    /\ returned # None => SummaryOf(panelist_id, returned[1])

\* Two panelists are summarised, one of them over two years.
C1_Witness ==
    /\ AllReturned
    /\ panelists # None
    /\ Len(panelists[1]) = 2
    /\ \E n \in 1..2 :
          /\ Len(panelists[1][n].appearances[1]) = 3
          /\ panelists[1][n].appearances[1][3] = <<TotalKey, 2>>

\* The entries of d are year entries in strictly ascending order of the year,
\* the last one excepted when `closed`, which is the total entry.
AscendingYears(d, closed) ==
    LET last == IF closed THEN Len(d) - 1 ELSE Len(d) IN
    /\ \A n \in 1..last : n \in YearEntries(d)
    /\ \A a, b \in 1..last : a < b => d[a][1][2] < d[b][1][2]
    /\ closed => Len(d) >= 1 /\ d[Len(d)][1] = TotalKey

\* C3: in every summary, and in the one under construction, the year entries
\* are strictly ascending by year with no year twice, and the total entry
\* comes after all of them, whatever the order of the rows of the tables.
C3_YearsAscendingTotalLast ==
    /\ pc = "fold" => AscendingYears(appearances, FALSE)
    /\ caller = "all" /\ panelists # None =>
          \A n \in 1..Len(panelists[1]) :
              panelists[1][n].appearances # None =>
                  AscendingYears(panelists[1][n].appearances[1], TRUE)
    /\ returned # None => AscendingYears(returned[1], TRUE)

\* A panelist is summarised whose later show comes first in ww_shows.
C3_Witness ==
    /\ AllReturned
    /\ panelists # None
    /\ Len(ww_shows) = 2
    /\ ww_shows[1].year > ww_shows[2].year
    /\ \E n \in 1..Len(panelists[1]) :
          /\ Len(panelists[1][n].appearances[1]) = 3
          /\ {<<1, result[n][1]>>, <<2, result[n][1]>>} \subseteq ww_showpnlmap

\* The number of entries of the output that carry the name.
EntriesNamed(name) ==
    IF panelists = None THEN 0
    ELSE Cardinality({n \in 1..Len(panelists[1]) : panelists[1][n].name = name})

\* C2: the output of the aggregation holds every panelist name of the records
\* exactly once, and no other name, also when two panelist ids share a name.
C2_EachNameExactlyOnce ==
    AllReturned =>
        \A name \in Names :
            EntriesNamed(name) =
                IF name \in {ww_panelists[pid] : pid \in RecordPanelists} THEN 1 ELSE 0

\* C4: with no appearance records, both aggregations return an empty mapping,
\* not None.
C4_EmptyInputGivesEmptyMapping ==
    /\ AllReturned /\ RecordPanelists = {} => panelists = Some(<<>>)
    /\ caller = "direct" /\ pc = "returned" /\ RecordYears(panelist_id) = {} =>
          returned = Some(<<>>)

\* The years of all shows, ascending, each once.
RECURSIVE Ascending(_)
Ascending(S) ==
    IF S = {} THEN <<>>
    ELSE LET least == CHOOSE y \in S : \A z \in S : y <= z
         IN <<least>> \o Ascending(S \ {least})

\* C7: the year enumeration returns the distinct years of all shows, best-of
\* and repeat shows included, ascending; an empty sequence when there is no
\* show.
C7_DistinctYearsAscending ==
    pc = After("query_years") =>
        show_years = Some(Ascending({ww_shows[sid].year : sid \in 1..Len(ww_shows)}))

\* load_config has returned the resolved configuration.
Resolved == app_config # None

\* The value the command line gives option k.
Given(k) == Str(cli_args[k][1])

\* C5: for each of the five report keys on its own, the resolved value is the
\* command-line value when that differs from the file's default and the
\* file's default otherwise; no other key and not the database section
\* changes.
C5_OverrideWinsOnlyWhenDifferent ==
    Resolved =>
        /\ DOMAIN app_config[1].report = DOMAIN config_file.report
        /\ \A k \in ReportKeys :
              app_config[1].report[k] =
                  IF cli_args[k] # None /\ Given(k) # config_file.report[k]
                  THEN Given(k)
                  ELSE config_file.report[k]
        /\ app_config[1].database = config_file.database

\* One option overrides its default, one repeats its default, one is not
\* given.
C5_Witness ==
    /\ Resolved
    /\ cli_args["css_directory"] = Some("custom")
    /\ config_file.report["css_directory"] = Str("css")
    /\ cli_args["css_filename"] = Some("style.css")
    /\ config_file.report["css_filename"] = Str("style.css")
    /\ cli_args["output_directory"] = None

\* C6: a file that lacks one of the five report keys, or holds a value that
\* is no string for one, makes load_config fail: no settings are produced and
\* main goes no further.
C6_BadConfigurationFails ==
    (\E k \in ReportKeys :
        \/ k \notin DOMAIN config_file.report
        \/ ~ IsString(config_file.report[k]))
    => /\ app_config = None
       /\ pc \in {"load_config", "failed"}

\* The calls of main, in the order of the source.
StageOrder == <<"load_config", "connect", "query_panelists", "query_years",
                "render", "generate_output_files">>

\* The file system as this run found it.
AtStart == history[Len(history)]

\* C10: the calls of a run are made in the fixed order, each at most once;
\* and until the output writer is called, so also when an earlier call
\* fails, the directories and files are those the run found.
C10_FixedOrderAndNoOutputBeforeWrite ==
    /\ Len(stages) <= Len(StageOrder)
    /\ \A n \in 1..Len(stages) : stages[n] = StageOrder[n]
    /\ (\A n \in 1..Len(stages) : stages[n] # "generate_output_files") =>
          /\ fs_dirs = AtStart.dirs
          /\ fs_files = AtStart.files
    /\ pc = "failed" => stages # <<>> /\ StageOf(failed_at) = stages[Len(stages)]

\* The template is not found after both queries have run.
C10_Witness ==
    /\ pc = "failed"
    /\ failed_at = "render"
    /\ stages = SubSeq(StageOrder, 1, 5)
    /\ panelists # None
    /\ "output" \notin fs_dirs

\* The run before this one ended with the output written.
LastRunDone == Len(history) >= 2 /\ history[Len(history)].outcome = "done"

\* C8: the output directory exists before the document is written; the
\* written file holds the document of this call and nothing else before the
\* stylesheet is copied; a call after one that succeeded does not fail, and
\* with the same document it leaves the files the first call left.
C8_CreateWriteCopyIdempotent ==
    /\ pc \in {"write", "copy", "done"} =>
          Setting("output_directory")[2] \in fs_dirs
    /\ pc \in {"copy", "done"} =>
          fs_files[output_path] = Some(<<rendered_report[1]>>)
    /\ pc = "done" =>
          /\ fs_files[css_path] # None
          /\ fs_files[css_copy_path] = fs_files[css_path]
    /\ LastRunDone /\ pc = "failed" =>
          StageOf(failed_at) # "generate_output_files"
    /\ LastRunDone /\ pc = "done" /\ rendered_report = AtStart.report =>
          /\ fs_dirs = AtStart.dirs
          /\ fs_files = AtStart.files

\* The first call found no output directory, and the second call wrote the
\* same document again.
C8_Witness ==
    /\ LastRunDone
    /\ pc = "done"
    /\ Len(history) = 2
    /\ "output" \notin history[1].dirs
    /\ "output" \in fs_dirs
    /\ rendered_report = AtStart.report
    /\ panelists # None

\* C9: a report file that cannot be opened for writing does not end the
\* run: the message is printed, the write skipped and the stylesheet
\* copied; a failing copy ends the run and leaves the written report.
C9_WriteFailureIsSwallowed ==
    /\ ~ (pc = "failed" /\ failed_at = "write")
    /\ pc \in {"copy", "done"} /\ ~ env.can_open => stdout # <<>>
    /\ pc = "failed" /\ failed_at = "copy" /\ env.can_open =>
          fs_files[output_path] = Some(<<rendered_report[1]>>)
====
